---- MODULE Spec2Model ----
(***************************************************************************)
(* Window construction and boundary labelling of                          *)
(* DocumentSeparationDataset (src/data/dataset.py).                        *)
(*                                                                         *)
(* Coordinates are the 0-based (inventory, document, scan) triples of the  *)
(* code.  A document of image_paths is represented by its number of scans, *)
(* so image_paths[i + 1][j + 1] is len(self.image_paths[i][j]).            *)
(* Probabilities and the draws of np.random.rand() are in percent.         *)
(***************************************************************************)
EXTENDS Integers, Sequences, FiniteSets, TLC

\* Largest number_of_images a dataset is constructed with.
MaxImages == 3

\* Python's None: the "missing" slot of a window, the absent document.
None == <<>>

\* Python's None where the other results are integers (an inventory index).
NoInventory == -1

\* The value standing for "the call raised" among the outcomes of a draw.
Raised == <<-1>>

\* The hierarchies datasets are constructed over: every document is non-empty,
\* an inventory can be without documents.
Hierarchies ==
    { << <<3>> >>,
      << <<2, 1>> >>,
      << <<1, 1, 1>> >>,
      << <<1>>, <<1, 2>> >>,
      << <<2>>, <<1>> >>,
      << <<>>, <<2>> >>,
      << <<1>>, <<>>, <<>> >> }

\* The values the three probabilities are constructed with (0, 0.5, 1).
Probabilities == {0, 50, 100}

\* Representative values of np.random.rand(), which lies in [0, 1).
RandSamples == {0, 50, 99}

\* The concurrent callers of __getitem__.
Calls == {1, 2}

VARIABLES
    image_paths,                    \* self.image_paths
    number_of_images,               \* self.number_of_images
    sample_same_inventory,          \* self.sample_same_inventory
    wrap_round,                     \* self.wrap_round
    prob_shuffle_document,          \* self.prob_shuffle_document
    prob_randomize_document_order,  \* self.prob_randomize_document_order
    prob_random_scan_insert,        \* self.prob_random_scan_insert
    next_scans,                     \* self.next_scans
    prev_scans,                     \* self.prev_scans
    pc,                             \* position of each call of __getitem__
    center,                         \* (inventory, document, scan) of the call
    prev_idcs,                      \* prev_idcs of get_previous_idcs
    prev_document,                  \* prev_document of get_previous_idcs
    next_idcs,                      \* next_idcs of get_next_idcs
    next_document,                  \* next_document of get_next_idcs
    idcs,                           \* idcs of __getitem__
    output,                         \* the per-position payload of __getitem__
    nav,                            \* the last call of a navigation method
    cache,                          \* the entries of the lru_cache of each method
    used,                           \* history: the keys of each cache by last use
    cursor,                         \* the next index the data loader asks for
    revisits,                       \* the repeated requests made so far
    wpc,                            \* position of each caller of get_image
    wkey,                           \* (inventory, document, scan) it resolves
    training_paths,                 \* training_paths of split_training_paths
    split_ratio,                    \* split_ratio, in percent
    split_pc,                       \* position of split_training_paths
    split_training_paths,           \* the training paths returned
    split_val_paths                 \* the validation paths returned

config == <<image_paths, number_of_images, sample_same_inventory, wrap_round,
            prob_shuffle_document, prob_randomize_document_order,
            prob_random_scan_insert>>
shared == <<next_scans, prev_scans>>
locals == <<center, prev_idcs, prev_document, next_idcs, next_document, idcs,
            output>>
navigation == <<nav>>
caching == <<cache, used, cursor, revisits, wpc, wkey>>
splitting == <<training_paths, split_ratio, split_pc, split_training_paths,
               split_val_paths>>
vars == <<config, shared, pc, locals, navigation, caching, splitting>>

-----------------------------------------------------------------------------
(* Helpers over sequences and random draws *)

\* number of inventories, documents of an inventory, scans of a document
NumInventories == Len(image_paths)
NumDocuments(inventory) == Len(image_paths[inventory + 1])
NumScans(inventory, document) == image_paths[inventory + 1][document + 1]

\* prob > np.random.rand()
Trigger(prob) == {prob > r : r \in RandSamples}

\* np.random.shuffle: every permutation of the list
Shuffles(s) ==
    {[i \in 1..Len(s) |-> s[f[i]]] :
        f \in {g \in [1..Len(s) -> 1..Len(s)] :
                 \A a, b \in 1..Len(s) : g[a] = g[b] => a = b}}

\* np.random.choice(n): empty when n <= 0, where numpy raises
random_choice(n) == 0..(n - 1)

\* the set of results; empty when an assertion or np.random.choice raises
random_choice_except(high, excluding) ==
    IF ~(excluding < high) \/ random_choice(high - 1) = {}
    THEN {}
    ELSE {choices + (IF choices >= excluding THEN 1 ELSE 0) :
             choices \in random_choice(high - 1)}

-----------------------------------------------------------------------------
(* __init__ *)

steps_back == (number_of_images \div 2) + 1

\* steps_forward without the extra tail slot
steps_forward_without_tail == number_of_images - steps_back

steps_forward == number_of_images + 1 - steps_back

\* InventoryIdcs that numbers the scans of a document from 1
RECURSIVE InventoryIdcsFromOne(_, _)
InventoryIdcsFromOne(i, j) ==
    IF j >= NumDocuments(i) THEN <<>>
    ELSE [k \in 1..NumScans(i, j) |-> <<i, j, k>>] \o InventoryIdcsFromOne(i, j + 1)

RECURSIVE InventoryIdcs(_, _)
InventoryIdcs(i, j) ==
    IF j >= NumDocuments(i) THEN <<>>
    ELSE [k \in 1..NumScans(i, j) |-> <<i, j, k - 1>>] \o InventoryIdcs(i, j + 1)

RECURSIVE HierarchyIdcs(_)
HierarchyIdcs(i) ==
    IF i >= NumInventories THEN <<>>
    ELSE InventoryIdcs(i, 0) \o HierarchyIdcs(i + 1)

\* idx_to_idcs[idx + 1] is self.idx_to_idcs[idx]
idx_to_idcs == HierarchyIdcs(0)

len == Len(idx_to_idcs)

-----------------------------------------------------------------------------
(* Navigation primitives *)

is_out_of_bounds(inventory, document, scan) ==
    \/ inventory < 0
    \/ document < 0
    \/ scan < 0
    \/ inventory >= NumInventories
    \/ document >= NumDocuments(inventory)
    \/ scan >= NumScans(inventory, document)

scan_in_document(inventory, document, scan) ==
    0 <= scan /\ scan < NumScans(inventory, document)

get_first_document(inventory) == <<inventory, 0>>

get_last_document(inventory) == <<inventory, NumDocuments(inventory) - 1>>

get_next_document(inventory, document) ==
    IF is_out_of_bounds(inventory, document + 1, 0) THEN None
    ELSE <<inventory, document + 1>>

get_prev_document(inventory, document) ==
    IF is_out_of_bounds(inventory, document - 1, 0) THEN None
    ELSE <<inventory, document - 1>>

get_first_inventory == 0

get_last_inventory == NumInventories - 1

get_next_inventory(inventory) ==
    IF is_out_of_bounds(inventory + 1, 0, 0) THEN NoInventory ELSE inventory + 1

get_prev_inventory(inventory) ==
    IF is_out_of_bounds(inventory - 1, 0, 0) THEN NoInventory ELSE inventory - 1

get_all_scans_in_document(inventory, document) ==
    IF is_out_of_bounds(inventory, document, 0) THEN <<>>
    ELSE [i \in 1..NumScans(inventory, document) |-> <<inventory, document, i - 1>>]

-----------------------------------------------------------------------------
(* Same-document neighbours *)

\* the (prev_scans, next_scans) a permutation of the document is split into
SplitAround(all_scans, scan_idx) ==
    LET at == CHOOSE i \in 1..Len(all_scans) : all_scans[i] = scan_idx
    IN  [prev |-> SubSeq(all_scans, 1, at - 1),
         next |-> SubSeq(all_scans, at + 1, Len(all_scans))]

\* the values fill_next_prev_scans can leave in prev_scans and next_scans
fill_next_prev_scans(inventory, document, scan) ==
    UNION {
        IF ~shuffle THEN {[prev |-> <<>>, next |-> <<>>]}
        ELSE LET all_scans == get_all_scans_in_document(inventory, document)
             IN  IF Len(all_scans) = 1 THEN {[prev |-> <<>>, next |-> <<>>]}
                 ELSE {SplitAround(shuffled, <<inventory, document, scan>>) :
                          shuffled \in Shuffles(all_scans)}
        : shuffle \in Trigger(prob_shuffle_document)}

\* get_next_scans_in_document with a range that starts at the scan itself
get_next_scans_from_scan(inventory, document, scan) ==
    IF next_scans # <<>> \/ prev_scans # <<>> THEN next_scans
    ELSE [i \in 1..(NumScans(inventory, document) - scan) |->
             <<inventory, document, scan + i - 1>>]

get_next_scans_in_document(inventory, document, scan) ==
    IF next_scans # <<>> \/ prev_scans # <<>> THEN next_scans
    ELSE [i \in 1..(NumScans(inventory, document) - (scan + 1)) |->
             <<inventory, document, scan + i>>]

\* get_prev_scans_in_document with a range that runs up to the scan itself
get_prev_scans_including_scan(inventory, document, scan) ==
    IF next_scans # <<>> \/ prev_scans # <<>> THEN prev_scans
    ELSE [i \in 1..(scan + 1) |-> <<inventory, document, i - 1>>]

get_prev_scans_in_document(inventory, document, scan) ==
    IF next_scans # <<>> \/ prev_scans # <<>> THEN prev_scans
    ELSE [i \in 1..scan |-> <<inventory, document, i - 1>>]

-----------------------------------------------------------------------------
(* Cross-document extension *)

\* the results of get_scans_in_next_document / get_scans_in_prev_document:
\* raised, (None, (inventory, document)) or (scans, next_inventory_document)
ResultRaised == [raised |-> TRUE, none |-> FALSE, scans |-> <<>>, doc |-> None]
ResultNone(inventory, document) ==
    [raised |-> FALSE, none |-> TRUE, scans |-> <<>>, doc |-> <<inventory, document>>]
ResultScans(scans, inventory_document) ==
    [raised |-> FALSE, none |-> FALSE, scans |-> scans, doc |-> inventory_document]

\* the randomized document order of both directions
RandomizedDocument(inventory, document) ==
    IF sample_same_inventory
    THEN LET drawn == random_choice_except(NumDocuments(inventory), document)
         IN  IF drawn = {} THEN {Raised}
             ELSE {<<inventory, d>> : d \in drawn}
    ELSE LET drawn == random_choice_except(NumInventories, inventory)
         IN  IF drawn = {} THEN {Raised}
             ELSE UNION {IF random_choice(NumDocuments(i)) = {} THEN {Raised}
                         ELSE {<<i, d>> : d \in random_choice(NumDocuments(i))}
                         : i \in drawn}

\* WrapNextDocument that stays in the last inventory instead of wrapping to
\* the first one
WrapNextDocumentWithinLast(inventory) ==
    IF sample_same_inventory THEN get_first_document(inventory)
    ELSE LET next_inventory == get_next_inventory(inventory)
         IN  IF next_inventory = NoInventory
             THEN get_first_document(inventory)
             ELSE get_first_document(next_inventory)

\* the document the forward walk wraps round to at the edge
WrapNextDocument(inventory) ==
    IF sample_same_inventory THEN get_first_document(inventory)
    ELSE LET next_inventory == get_next_inventory(inventory)
         IN  IF next_inventory = NoInventory
             THEN get_first_document(get_first_inventory)
             ELSE get_first_document(next_inventory)

\* the document the backward walk wraps round to at the edge
WrapPrevDocument(inventory) ==
    IF sample_same_inventory THEN get_last_document(inventory)
    ELSE LET prev_inventory == get_prev_inventory(inventory)
         IN  IF prev_inventory = NoInventory
             THEN get_last_document(get_last_inventory)
             ELSE get_last_document(prev_inventory)

\* the scans of the document entered, shuffled or not
ScansOfDocument(inventory_document) ==
    LET scans == get_all_scans_in_document(inventory_document[1], inventory_document[2])
    IN  UNION {IF shuffle
               THEN {ResultScans(shuffled, inventory_document) : shuffled \in Shuffles(scans)}
               ELSE {ResultScans(scans, inventory_document)}
               : shuffle \in Trigger(prob_shuffle_document)}

\* NextAtEdge that wraps round only within an inventory
NextAtEdgeSameInventoryOnly(inventory, document) ==
    IF wrap_round /\ sample_same_inventory
    THEN ScansOfDocument(WrapNextDocument(inventory))
    ELSE {ResultNone(inventory, document)}

\* get_scans_in_next_document when the next document is out of bounds
NextAtEdge(inventory, document) ==
    IF wrap_round
    THEN ScansOfDocument(WrapNextDocument(inventory))
    ELSE {ResultNone(inventory, document)}

\* get_scans_in_prev_document when the previous document is out of bounds
PrevAtEdge(inventory, document) ==
    IF wrap_round
    THEN ScansOfDocument(WrapPrevDocument(inventory))
    ELSE {ResultNone(inventory, document)}

\* get_scans_in_next_document once the mode is drawn
ScansInNextDocument(inventory, document, randomize) ==
    LET drawn == IF randomize THEN RandomizedDocument(inventory, document)
                 ELSE {get_next_document(inventory, document)}
    IN  UNION {
          IF next_inventory_document = Raised THEN {ResultRaised}
          ELSE IF next_inventory_document = None
               THEN NextAtEdge(inventory, document)
               ELSE ScansOfDocument(next_inventory_document)
          : next_inventory_document \in drawn}

get_scans_in_next_document(inventory, document) ==
    UNION {ScansInNextDocument(inventory, document, randomize) :
              randomize \in Trigger(prob_randomize_document_order)}

\* get_scans_in_prev_document once the mode is drawn
ScansInPrevDocument(inventory, document, randomize) ==
    LET drawn == IF randomize THEN RandomizedDocument(inventory, document)
                 ELSE {get_prev_document(inventory, document)}
    IN  UNION {
          IF prev_inventory_document = Raised THEN {ResultRaised}
          ELSE IF prev_inventory_document = None
               THEN PrevAtEdge(inventory, document)
               ELSE ScansOfDocument(prev_inventory_document)
          : prev_inventory_document \in drawn}

get_scans_in_prev_document(inventory, document) ==
    UNION {ScansInPrevDocument(inventory, document, randomize) :
              randomize \in Trigger(prob_randomize_document_order)}

-----------------------------------------------------------------------------
(* Random foreign-scan insertion *)

\* middle_position rounded down from the last position
middle_position_of_last(window) == (Len(window) - 1) \div 2

\* 0-based position of the center slot
middle_position(window) == Len(window) \div 2

\* the window with one slot overwritten by a scan of random_inventory, or the
\* window itself when possible_documents is empty
InsertFrom(window, insert_position, random_inventory, possible_documents) ==
    IF possible_documents = {} THEN {window}
    ELSE UNION {{[window EXCEPT ![insert_position + 1] =
                    <<random_inventory, random_document, random_scan>>] :
                   random_scan \in random_choice(NumScans(random_inventory, random_document))}
                : random_document \in possible_documents}

\* the values insert_random_scan can leave in idcs; Raised when it raises
insert_random_scan(window) ==
    UNION {
      IF ~insert THEN {window}
      ELSE IF window[middle_position(window) + 1] = None THEN {Raised}
      ELSE
        LET inventory == window[middle_position(window) + 1][1]
            document == window[middle_position(window) + 1][2]
            remaining_positions == (0..(Len(window) - 1)) \ {middle_position(window)}
        IN  UNION {
              IF sample_same_inventory
              THEN InsertFrom(window, insert_position, inventory,
                              (0..(NumDocuments(inventory) - 1)) \ {document})
              ELSE UNION {
                     InsertFrom(window, insert_position, random_inventory,
                                IF random_inventory = inventory
                                THEN (0..(NumDocuments(random_inventory) - 1)) \ {document}
                                ELSE 0..(NumDocuments(random_inventory) - 1))
                     : random_inventory \in random_choice(NumInventories)}
              : insert_position \in remaining_positions}
      : insert \in Trigger(prob_random_scan_insert)}

-----------------------------------------------------------------------------
(* Payload and targets of the retained positions *)

\* the image of a scan (taken to be readable)
get_image(inventory, document, scan) == <<"image", inventory, document, scan>>

\* the transcription and the size of the page of a scan
get_text(inventory, document, scan) ==
    [text |-> <<"text", inventory, document, scan>>,
     shape |-> <<"shape", inventory, document, scan>>]

\* the placeholder text and shape assigned for a missing slot
EmptyText == <<"text">>
EmptyShape == <<0, 0>>

\* Target whose middle looks at start only
TargetMiddleNotStart(prev_idx, next_idx, document) ==
    LET start == prev_idx = None \/ prev_idx[2] # document
        end == next_idx = None \/ next_idx[2] # document
        middle == ~start
    IN  [start |-> start, middle |-> middle, end |-> end]

\* start, middle, end of a position whose document index is document
Target(prev_idx, next_idx, document) ==
    LET start == prev_idx = None \/ prev_idx[2] # document
        end == next_idx = None \/ next_idx[2] # document
        middle == ~start /\ ~end
    IN  [start |-> start, middle |-> middle, end |-> end]

\* inventory, document, scan after the if/else of one pass of the loop over
\* range(number_of_images): left as they were when the slot is None
Current(window, i, current) ==
    IF window[i + 2] = None THEN current ELSE window[i + 2]

\* what one pass of the loop appends for position i of window
Payload(window, i, current) ==
    LET prev_idx == window[i + 1]
        idx == window[i + 2]
        next_idx == window[i + 3]
        now == Current(window, i, current)
        image == IF idx = None THEN None ELSE get_image(now[1], now[2], now[3])
        text_shape == get_text(now[1], now[2], now[3])
    IN  [idx |-> idx,
         image |-> image,
         image_path |-> IF image = None THEN None ELSE now,
         text |-> text_shape.text,
         shape |-> text_shape.shape,
         target |-> Target(prev_idx, next_idx, now[2])]

RECURSIVE Payloads(_, _, _)
Payloads(window, i, current) ==
    IF i >= number_of_images THEN <<>>
    ELSE <<Payload(window, i, current)>>
         \o Payloads(window, i + 1, Current(window, i, current))

-----------------------------------------------------------------------------
(* The navigation methods called with any indices *)

\* a list of n elements can be indexed with -n <= i < n (IndexError otherwise)
ListIndexable(n, i) == -n <= i /\ i < n

\* the element, counted from 0, that index i selects: a negative i counts from
\* the end of the list
ListPosition(n, i) == IF i >= 0 THEN i ELSE n + i

\* the two ways a call ends
Returns(value) == [raised |-> FALSE, value |-> value]
Raises == [raised |-> TRUE, value |-> None]

\* scan_in_document for any indices: 0 <= scan is tested first and the lists
\* are indexed only when it holds
scan_in_document_outcome(inventory, document, scan) ==
    IF ~(0 <= scan) THEN Returns(FALSE)
    ELSE IF ~ListIndexable(NumInventories, inventory) THEN Raises
    ELSE LET i == ListPosition(NumInventories, inventory)
         IN  IF ~ListIndexable(NumDocuments(i), document) THEN Raises
             ELSE Returns(scan_in_document(
                              i, ListPosition(NumDocuments(i), document), scan))

\* get_last_document for any inventory index
get_last_document_outcome(inventory) ==
    IF ~ListIndexable(NumInventories, inventory) THEN Raises
    ELSE Returns(<<inventory,
                   NumDocuments(ListPosition(NumInventories, inventory)) - 1>>)

\* no navigation method was called yet
NoCall == [primitive |-> "none", args |-> <<>>, outcome |-> Returns(None)]

-----------------------------------------------------------------------------
(* functools.lru_cache(maxsize=16) around get_image and around get_text *)

maxsize == 16

\* the two decorated methods, each with a cache of its own
Functions == {"get_image", "get_text"}

\* the elements of a sequence
Range(seq) == {seq[i] : i \in 1..Len(seq)}

\* the entries of a cache are its keys from the least to the most recently
\* used one; the value cached for a key is what the method returns for it

\* the entries that never move on a hit
HitWithoutUse(entries, key) == entries

\* a hit makes the entry the most recently used one
Hit(entries, key) == SelectSeq(entries, LAMBDA e : e # key) \o <<key>>

\* the result of a miss is stored: nothing to do if the key was stored while
\* the method ran; a full cache first drops its oldest entry
Store(entries, key) ==
    IF key \in Range(entries) THEN entries
    ELSE IF Len(entries) >= maxsize THEN Append(Tail(entries), key)
    ELSE Append(entries, key)

\* the history of uses after key was used
UsedNow(history, key) == SelectSeq(history, LAMBDA e : e # key) \o <<key>>

\* The repeated requests of a run of the data loader.
MaxRevisits == 2

-----------------------------------------------------------------------------
(* split_training_paths *)

\* The paths split_training_paths is called with: <<1, 3>> is the file 3 of
\* the folder 1, <<1, 2, 1>> the file 1 of the folder 2 inside the folder 1.
PathUniverse ==
    {<<1, 1>>, <<1, 3>>, <<1, 2, 1>>, <<2, 2>>, <<2, 10>>, <<3, 1>>}

\* The split ratios, in percent (0.8 is the default and the one the data
\* module passes).
Ratios == {20, 50, 80}

\* path.parent
parent(path) == SubSeq(path, 1, Len(path) - 1)

\* the natural order of two paths: the numbers in them compare as numbers
RECURSIVE NaturalLess(_, _)
NaturalLess(a, b) ==
    IF a = <<>> THEN b # <<>>
    ELSE IF b = <<>> THEN FALSE
    ELSE IF Head(a) # Head(b) THEN Head(a) < Head(b)
    ELSE NaturalLess(Tail(a), Tail(b))

RECURSIVE natsorted(_)
natsorted(paths) ==
    IF paths = {} THEN <<>>
    ELSE LET least == CHOOSE p \in paths :
                          \A q \in paths \ {p} : NaturalLess(p, q)
         IN  <<least>> \o natsorted(paths \ {least})

\* itertools.groupby(paths, key=parent): the runs of consecutive paths with
\* the same parent, each as a list
RECURSIVE groupby(_)
groupby(paths) ==
    IF paths = <<>> THEN <<>>
    ELSE LET rest == groupby(Tail(paths))
         IN  IF rest # <<>> /\ parent(Head(rest[1])) = parent(Head(paths))
             THEN <<<<Head(paths)>> \o rest[1]>> \o Tail(rest)
             ELSE <<<<Head(paths)>>>> \o rest

\* itertools.chain.from_iterable
RECURSIVE chain(_)
chain(groups) ==
    IF groups = <<>> THEN <<>> ELSE Head(groups) \o chain(Tail(groups))

\* int(len(grouped_training_paths) * split_ratio)
split_idx(groups) == (Len(groups) * split_ratio) \div 100

-----------------------------------------------------------------------------
(* The state after construction *)

\* nothing was called yet
Uncalled ==
    /\ next_scans = <<>>
    /\ prev_scans = <<>>
    /\ nav = NoCall
    /\ cache = [f \in Functions |-> <<>>]
    /\ used = [f \in Functions |-> <<>>]
    /\ cursor = 0
    /\ revisits = 0
    /\ wpc = [c \in Calls |-> "idle"]
    /\ wkey = [c \in Calls |-> None]
    /\ training_paths = {}
    /\ split_ratio = 80
    /\ split_pc = "idle"
    /\ split_training_paths = <<>>
    /\ split_val_paths = <<>>
    /\ center = [c \in Calls |-> None]
    /\ prev_idcs = [c \in Calls |-> <<>>]
    /\ prev_document = [c \in Calls |-> None]
    /\ next_idcs = [c \in Calls |-> <<>>]
    /\ next_document = [c \in Calls |-> None]
    /\ idcs = [c \in Calls |-> <<>>]
    /\ output = [c \in Calls |-> <<>>]

Init ==
    /\ image_paths \in Hierarchies
    /\ number_of_images \in 1..MaxImages
    /\ sample_same_inventory \in BOOLEAN
    /\ wrap_round \in BOOLEAN
    /\ prob_shuffle_document \in Probabilities
    /\ prob_randomize_document_order \in Probabilities
    /\ prob_random_scan_insert \in Probabilities
    /\ pc = [c \in Calls |-> "idle"]
    /\ Uncalled

-----------------------------------------------------------------------------
(* __getitem__, one action per step of a call c *)

\* __getitem__ up to and including fill_next_prev_scans
GetItem(c) ==
    /\ pc[c] = "idle"
    /\ \E idx \in 0..(len - 1) :
         LET coord == idx_to_idcs[idx + 1]
         IN  /\ center' = [center EXCEPT ![c] = coord]
             /\ \E filled \in fill_next_prev_scans(coord[1], coord[2], coord[3]) :
                  /\ prev_scans' = filled.prev
                  /\ next_scans' = filled.next
    /\ pc' = [pc EXCEPT ![c] = "get_previous_idcs"]
    /\ UNCHANGED <<navigation, caching, splitting>>
    /\ UNCHANGED <<config, prev_idcs, prev_document, next_idcs, next_document,
                   idcs, output>>

\* get_previous_idcs up to its loop
GetPreviousIdcs(c) ==
    /\ pc[c] = "get_previous_idcs"
    /\ prev_idcs' = [prev_idcs EXCEPT ![c] =
           get_prev_scans_in_document(center[c][1], center[c][2], center[c][3])]
    /\ prev_document' = [prev_document EXCEPT ![c] = <<center[c][1], center[c][2]>>]
    /\ pc' = [pc EXCEPT ![c] = "prev_loop"]
    /\ UNCHANGED <<navigation, caching, splitting>>
    /\ UNCHANGED <<config, shared, center, next_idcs, next_document, idcs, output>>

\* one pass of the loop of get_previous_idcs
PrevLoop(c) ==
    /\ pc[c] = "prev_loop"
    /\ Len(prev_idcs[c]) < steps_back
    /\ \E result \in get_scans_in_prev_document(prev_document[c][1], prev_document[c][2]) :
         IF result.raised
         THEN /\ pc' = [pc EXCEPT ![c] = "raised"]
              /\ UNCHANGED <<prev_idcs, prev_document>>
         ELSE /\ prev_idcs' = [prev_idcs EXCEPT ![c] =
                     IF result.none THEN <<None>> \o @ ELSE result.scans \o @]
              /\ prev_document' = [prev_document EXCEPT ![c] = result.doc]
              /\ UNCHANGED pc
    /\ UNCHANGED <<navigation, caching, splitting>>
    /\ UNCHANGED <<config, shared, center, next_idcs, next_document, idcs, output>>

\* the return of get_previous_idcs; idcs takes its result and the current scan
PrevReturn(c) ==
    /\ pc[c] = "prev_loop"
    /\ Len(prev_idcs[c]) >= steps_back
    /\ idcs' = [idcs EXCEPT ![c] =
           SubSeq(prev_idcs[c], Len(prev_idcs[c]) - steps_back + 1, Len(prev_idcs[c]))
           \o <<center[c]>>]
    /\ pc' = [pc EXCEPT ![c] = "get_next_idcs"]
    /\ UNCHANGED <<navigation, caching, splitting>>
    /\ UNCHANGED <<config, shared, center, prev_idcs, prev_document, next_idcs,
                   next_document, output>>

\* get_next_idcs up to its loop
GetNextIdcs(c) ==
    /\ pc[c] = "get_next_idcs"
    /\ next_idcs' = [next_idcs EXCEPT ![c] =
           get_next_scans_in_document(center[c][1], center[c][2], center[c][3])]
    /\ next_document' = [next_document EXCEPT ![c] = <<center[c][1], center[c][2]>>]
    /\ pc' = [pc EXCEPT ![c] = "next_loop"]
    /\ UNCHANGED <<navigation, caching, splitting>>
    /\ UNCHANGED <<config, shared, center, prev_idcs, prev_document, idcs, output>>

\* one pass of the loop of get_next_idcs
NextLoop(c) ==
    /\ pc[c] = "next_loop"
    /\ Len(next_idcs[c]) < steps_forward
    /\ \E result \in get_scans_in_next_document(next_document[c][1], next_document[c][2]) :
         IF result.raised
         THEN /\ pc' = [pc EXCEPT ![c] = "raised"]
              /\ UNCHANGED <<next_idcs, next_document>>
         ELSE /\ next_idcs' = [next_idcs EXCEPT ![c] =
                     IF result.none THEN Append(@, None) ELSE @ \o result.scans]
              /\ next_document' = [next_document EXCEPT ![c] = result.doc]
              /\ UNCHANGED pc
    /\ UNCHANGED <<navigation, caching, splitting>>
    /\ UNCHANGED <<config, shared, center, prev_idcs, prev_document, idcs, output>>

\* the return of get_next_idcs; idcs is extended by its result
NextReturn(c) ==
    /\ pc[c] = "next_loop"
    /\ Len(next_idcs[c]) >= steps_forward
    /\ idcs' = [idcs EXCEPT ![c] = @ \o SubSeq(next_idcs[c], 1, steps_forward)]
    /\ pc' = [pc EXCEPT ![c] = "insert_random_scan"]
    /\ UNCHANGED <<navigation, caching, splitting>>
    /\ UNCHANGED <<config, shared, center, prev_idcs, prev_document, next_idcs,
                   next_document, output>>

\* insert_random_scan(idcs)
InsertRandomScan(c) ==
    /\ pc[c] = "insert_random_scan"
    /\ \E inserted \in insert_random_scan(idcs[c]) :
         IF inserted = Raised
         THEN /\ pc' = [pc EXCEPT ![c] = "raised"]
              /\ UNCHANGED idcs
         ELSE /\ idcs' = [idcs EXCEPT ![c] = inserted]
              /\ pc' = [pc EXCEPT ![c] = "targets"]
    /\ UNCHANGED <<navigation, caching, splitting>>
    /\ UNCHANGED <<config, shared, center, prev_idcs, prev_document, next_idcs,
                   next_document, output>>

\* the loop over range(number_of_images) and the assembly of the output;
\* idcs[i + 2] raises when idcs is too short
Targets(c) ==
    /\ pc[c] = "targets"
    /\ IF Len(idcs[c]) < number_of_images + 2
       THEN /\ pc' = [pc EXCEPT ![c] = "raised"]
            /\ UNCHANGED output
       ELSE /\ output' = [output EXCEPT ![c] = Payloads(idcs[c], 0, center[c])]
            /\ pc' = [pc EXCEPT ![c] = "done"]
    /\ UNCHANGED <<navigation, caching, splitting>>
    /\ UNCHANGED <<config, shared, center, prev_idcs, prev_document, next_idcs,
                   next_document, idcs>>

\* the call returns its output or propagates the exception; its locals go away
Return(c) ==
    /\ pc[c] \in {"done", "raised"}
    /\ pc' = [pc EXCEPT ![c] = "idle"]
    /\ center' = [center EXCEPT ![c] = None]
    /\ prev_idcs' = [prev_idcs EXCEPT ![c] = <<>>]
    /\ prev_document' = [prev_document EXCEPT ![c] = None]
    /\ next_idcs' = [next_idcs EXCEPT ![c] = <<>>]
    /\ next_document' = [next_document EXCEPT ![c] = None]
    /\ idcs' = [idcs EXCEPT ![c] = <<>>]
    /\ output' = [output EXCEPT ![c] = <<>>]
    /\ UNCHANGED <<navigation, caching, splitting>>
    /\ UNCHANGED <<config, shared>>

\* __getitem__ called by one caller at a time
Next ==
    \E c \in {1} :
        \/ GetItem(c)
        \/ GetPreviousIdcs(c)
        \/ PrevLoop(c)
        \/ PrevReturn(c)
        \/ GetNextIdcs(c)
        \/ NextLoop(c)
        \/ NextReturn(c)
        \/ InsertRandomScan(c)
        \/ Targets(c)
        \/ Return(c)

Spec == Init /\ [][Next]_vars

\* a call that can take a step takes one: the interpreter keeps running
SpecLive == Spec /\ WF_vars(Next)

-----------------------------------------------------------------------------
(* __getitem__ called by two callers on the same dataset, steps interleaved *)

\* the hierarchy and window width the interleavings are explored over
InitConc ==
    /\ Init
    /\ image_paths = << <<2, 1>> >>
    /\ number_of_images = 1

NextConc ==
    \E c \in Calls :
        \/ GetItem(c)
        \/ GetPreviousIdcs(c)
        \/ PrevLoop(c)
        \/ PrevReturn(c)
        \/ GetNextIdcs(c)
        \/ NextLoop(c)
        \/ NextReturn(c)
        \/ InsertRandomScan(c)
        \/ Targets(c)
        \/ Return(c)

SpecConc == InitConc /\ [][NextConc]_vars

-----------------------------------------------------------------------------
(* __init__ called with any arguments *)

\* The hierarchies __init__ is called with: a document can be empty.
ArgumentHierarchies == Hierarchies \cup { << <<1, 0>> >> }

\* The probabilities __init__ is called with (-0.5, 0, 0.5, 1, 1.5).
ArgumentProbabilities == Probabilities \cup {-50, 150}

\* the arguments of a call of __init__ that has not run yet
InitArguments ==
    /\ image_paths \in ArgumentHierarchies
    /\ number_of_images \in 0..MaxImages
    /\ sample_same_inventory \in BOOLEAN
    /\ wrap_round \in BOOLEAN
    /\ prob_shuffle_document \in ArgumentProbabilities
    /\ prob_randomize_document_order \in ArgumentProbabilities
    /\ prob_random_scan_insert \in ArgumentProbabilities
    /\ pc = [c \in Calls |-> "__init__"]
    /\ Uncalled

\* __init__: raises for an empty document and for number_of_images <= 0,
\* otherwise the dataset is there to be indexed
Construct ==
    /\ \A c \in Calls : pc[c] = "__init__"
    /\ IF \/ \E i \in 0..(NumInventories - 1) :
                \E j \in 0..(NumDocuments(i) - 1) : NumScans(i, j) < 1
          \/ ~(number_of_images > 0)
       THEN pc' = [c \in Calls |-> "raised"]
       ELSE pc' = [c \in Calls |-> "idle"]
    /\ UNCHANGED <<config, shared, locals, navigation, caching, splitting>>

NextConstruct == Construct

SpecConstruct == InitArguments /\ [][NextConstruct]_vars

-----------------------------------------------------------------------------
(* The navigation methods called on a dataset with any indices *)

\* the options __init__ takes by default
DefaultOptions ==
    /\ number_of_images = 3
    /\ sample_same_inventory = TRUE
    /\ wrap_round = FALSE
    /\ prob_shuffle_document = 0
    /\ prob_randomize_document_order = 0
    /\ prob_random_scan_insert = 0

\* The indices the methods are called with, inside and outside the hierarchy.
NavInventories == -2..3
NavDocuments == -2..3
NavScans == -1..2

Call(primitive, args, outcome) ==
    /\ nav' = [primitive |-> primitive, args |-> args, outcome |-> outcome]
    /\ UNCHANGED <<config, shared, pc, locals, caching, splitting>>

ScanInDocument ==
    \E i \in NavInventories, d \in NavDocuments, s \in NavScans :
        Call("scan_in_document", <<i, d, s>>, scan_in_document_outcome(i, d, s))

GetFirstDocument ==
    \E i \in NavInventories :
        Call("get_first_document", <<i>>, Returns(get_first_document(i)))

GetLastDocument ==
    \E i \in NavInventories :
        Call("get_last_document", <<i>>, get_last_document_outcome(i))

GetNextDocument ==
    \E i \in NavInventories, d \in NavDocuments :
        Call("get_next_document", <<i, d>>, Returns(get_next_document(i, d)))

GetPrevDocument ==
    \E i \in NavInventories, d \in NavDocuments :
        Call("get_prev_document", <<i, d>>, Returns(get_prev_document(i, d)))

GetNextInventory ==
    \E i \in NavInventories :
        Call("get_next_inventory", <<i>>, Returns(get_next_inventory(i)))

GetPrevInventory ==
    \E i \in NavInventories :
        Call("get_prev_inventory", <<i>>, Returns(get_prev_inventory(i)))

GetAllScansInDocument ==
    \E i \in NavInventories, d \in NavDocuments :
        Call("get_all_scans_in_document", <<i, d>>,
             Returns(get_all_scans_in_document(i, d)))

InitNav == Init /\ DefaultOptions

NextNav ==
    \/ ScanInDocument
    \/ GetFirstDocument
    \/ GetLastDocument
    \/ GetNextDocument
    \/ GetPrevDocument
    \/ GetNextInventory
    \/ GetPrevInventory
    \/ GetAllScansInDocument

SpecNav == InitNav /\ [][NextNav]_vars

-----------------------------------------------------------------------------
(* get_image and get_text called through their caches *)

\* the call get_image(key) of caller c up to the lookup: a hit returns the
\* cached image, a miss runs the method
GetImage(c, key) ==
    /\ wpc[c] = "idle"
    /\ wkey' = [wkey EXCEPT ![c] = key]
    /\ IF key \in Range(cache["get_image"])
       THEN /\ cache' = [cache EXCEPT !["get_image"] = Hit(@, key)]
            /\ used' = [used EXCEPT !["get_image"] = UsedNow(@, key)]
            /\ wpc' = [wpc EXCEPT ![c] = "get_text"]
       ELSE /\ UNCHANGED <<cache, used>>
            /\ wpc' = [wpc EXCEPT ![c] = "load_image"]
    /\ UNCHANGED <<config, shared, pc, locals, navigation, splitting>>

\* the data loader asks for the next index, in order
Sample(c) ==
    /\ cursor < len
    /\ GetImage(c, idx_to_idcs[cursor + 1])
    /\ cursor' = cursor + 1
    /\ UNCHANGED revisits

\* a scan asked for before is asked for again
Revisit(c) ==
    /\ revisits < MaxRevisits
    /\ \E k \in 0..(cursor - 1) : GetImage(c, idx_to_idcs[k + 1])
    /\ revisits' = revisits + 1
    /\ UNCHANGED cursor

\* get_image returns and the wrapper stores the image
LoadImage(c) ==
    /\ wpc[c] = "load_image"
    /\ cache' = [cache EXCEPT !["get_image"] = Store(@, wkey[c])]
    /\ used' = [used EXCEPT !["get_image"] =
                    IF wkey[c] \in Range(cache["get_image"]) THEN @
                    ELSE UsedNow(@, wkey[c])]
    /\ wpc' = [wpc EXCEPT ![c] = "get_text"]
    /\ UNCHANGED <<cursor, revisits, wkey>>
    /\ UNCHANGED <<config, shared, pc, locals, navigation, splitting>>

\* the call get_text(key) up to the lookup
GetText(c) ==
    /\ wpc[c] = "get_text"
    /\ IF wkey[c] \in Range(cache["get_text"])
       THEN /\ cache' = [cache EXCEPT !["get_text"] = Hit(@, wkey[c])]
            /\ used' = [used EXCEPT !["get_text"] = UsedNow(@, wkey[c])]
            /\ wpc' = [wpc EXCEPT ![c] = "idle"]
       ELSE /\ UNCHANGED <<cache, used>>
            /\ wpc' = [wpc EXCEPT ![c] = "parse_text"]
    /\ UNCHANGED <<cursor, revisits, wkey>>
    /\ UNCHANGED <<config, shared, pc, locals, navigation, splitting>>

\* get_text returns and the wrapper stores the text and the shape
ParseText(c) ==
    /\ wpc[c] = "parse_text"
    /\ cache' = [cache EXCEPT !["get_text"] = Store(@, wkey[c])]
    /\ used' = [used EXCEPT !["get_text"] =
                    IF wkey[c] \in Range(cache["get_text"]) THEN @
                    ELSE UsedNow(@, wkey[c])]
    /\ wpc' = [wpc EXCEPT ![c] = "idle"]
    /\ UNCHANGED <<cursor, revisits, wkey>>
    /\ UNCHANGED <<config, shared, pc, locals, navigation, splitting>>

\* a dataset of one document with one scan more than a cache holds
InitCache ==
    /\ image_paths = << <<maxsize + 1>> >>
    /\ DefaultOptions
    /\ pc = [c \in Calls |-> "idle"]
    /\ Uncalled

\* one caller at a time
NextCache ==
    \E c \in {1} :
        \/ Sample(c)
        \/ Revisit(c)
        \/ LoadImage(c)
        \/ GetText(c)
        \/ ParseText(c)

SpecCache == InitCache /\ [][NextCache]_vars

\* two callers, steps interleaved, on a dataset the caches hold whole
InitCacheConc ==
    /\ Init
    /\ DefaultOptions
    /\ image_paths = << <<2, 1>> >>

NextCacheConc ==
    \E c \in Calls :
        \/ Sample(c)
        \/ Revisit(c)
        \/ LoadImage(c)
        \/ GetText(c)
        \/ ParseText(c)

SpecCacheConc == InitCacheConc /\ [][NextCacheConc]_vars

-----------------------------------------------------------------------------
(* split_training_paths called with any paths and ratio *)

SplitCall ==
    /\ split_pc = "idle"
    /\ training_paths' \in SUBSET PathUniverse
    /\ split_ratio' \in Ratios
    /\ split_pc' = "called"
    /\ UNCHANGED <<split_training_paths, split_val_paths>>
    /\ UNCHANGED <<config, shared, pc, locals, navigation, caching>>

\* the body: sort, group by folder, shuffle the groups (any order, for some
\* seed), cut at split_idx
SplitTrainingPaths ==
    /\ split_pc = "called"
    /\ \E grouped_training_paths \in Shuffles(groupby(natsorted(training_paths))) :
          LET idx == split_idx(grouped_training_paths)
              n == Len(grouped_training_paths)
          IN  /\ split_training_paths' =
                     chain(SubSeq(grouped_training_paths, 1, idx))
              /\ split_val_paths' =
                     chain(SubSeq(grouped_training_paths, idx + 1, n))
    /\ split_pc' = "returned"
    /\ UNCHANGED <<training_paths, split_ratio>>
    /\ UNCHANGED <<config, shared, pc, locals, navigation, caching>>

InitSplit == Init /\ DefaultOptions /\ image_paths = << <<3>> >>

NextSplit == SplitCall \/ SplitTrainingPaths

SpecSplit == InitSplit /\ [][NextSplit]_vars

-----------------------------------------------------------------------------
(* Properties of the window and of the targets *)

\* the calls whose window is complete (before or after the insertion)
Built(c) == pc[c] \in {"insert_random_scan", "targets", "done"}

\* the positions of output[c], position p labelling the slot idcs[c][p + 1]
Retained(c) == 1..Len(output[c])

\* the number of labels of a target that are true
TrueLabels(target) ==
    (IF target.start THEN 1 ELSE 0) + (IF target.middle THEN 1 ELSE 0)
    + (IF target.end THEN 1 ELSE 0)

\* C1: get_previous_idcs returns exactly steps_back slots, get_next_idcs
\* exactly steps_forward slots, and the window before trimming has
\* steps_back + 1 + steps_forward = number_of_images + 2 slots.
C1_WindowLength ==
    \A c \in Calls :
        /\ pc[c] \in {"get_next_idcs", "next_loop"} => Len(idcs[c]) = steps_back + 1
        /\ Built(c) => /\ Len(idcs[c]) = steps_back + 1 + steps_forward
                       /\ Len(idcs[c]) = number_of_images + 2

C1_Witness ==
    /\ pc[1] = "done"
    /\ number_of_images = 2
    /\ Len(idcs[1]) = 4
    /\ Len(output[1]) = 2

OtherDocument(slot, idx) ==
    slot = None \/ <<slot[1], slot[2]>> # <<idx[1], idx[2]>>

\* C3: at every retained non-sentinel position start is true exactly when the
\* previous slot is missing or of another (inventory, document), end exactly
\* when the next slot is, and middle exactly when neither start nor end is.
C3_LabelsFollowDocuments ==
    \A c \in Calls :
        pc[c] = "done" =>
            \A p \in Retained(c) :
                idcs[c][p + 1] # None =>
                    LET target == output[c][p].target
                    IN  /\ target.start <=> OtherDocument(idcs[c][p], idcs[c][p + 1])
                        /\ target.end <=> OtherDocument(idcs[c][p + 2], idcs[c][p + 1])
                        /\ target.middle <=> (~target.start /\ ~target.end)

\* C4: every retained missing position is emitted with start = middle = end
\* = false, no image, the empty text and the shape (0, 0).
C4_SentinelPlaceholder ==
    \A c \in Calls :
        pc[c] = "done" =>
            \A p \in Retained(c) :
                output[c][p].idx = None =>
                    /\ TrueLabels(output[c][p].target) = 0
                    /\ output[c][p].image = None
                    /\ output[c][p].text = EmptyText
                    /\ output[c][p].shape = EmptyShape

\* the window of a call centred on the first scan of the first document of
\* the first inventory has only missing slots before the center, and the
\* center is labelled start
MissingBeforeFirstScan(c) ==
    /\ \A p \in 1..steps_back : idcs[c][p] = None
    /\ output[c][steps_back].target.start

\* C5 as claimed: with wrap_round = false and the center at the first scan of
\* the first document of the first inventory, under every setting of the
\* other options, all backward slots are missing and the center has start.
C5_FirstScanAnyOptions ==
    \A c \in Calls :
        (pc[c] = "done" /\ ~wrap_round /\ center[c] = <<0, 0, 0>>)
            => MissingBeforeFirstScan(c)

\* C5 amended: the same when the three probabilities prob_shuffle_document,
\* prob_randomize_document_order and prob_random_scan_insert are 0.
C5_FirstScanNoPerturbation ==
    \A c \in Calls :
        (/\ pc[c] = "done" /\ ~wrap_round /\ center[c] = <<0, 0, 0>>
         /\ prob_shuffle_document = 0
         /\ prob_randomize_document_order = 0
         /\ prob_random_scan_insert = 0)
            => MissingBeforeFirstScan(c)

C5_Witness ==
    /\ pc[1] = "done" /\ ~wrap_round /\ center[1] = <<0, 0, 0>>
    /\ prob_shuffle_document = 0
    /\ prob_randomize_document_order = 0
    /\ prob_random_scan_insert = 0
    /\ number_of_images = 3
    /\ NumScans(0, 0) > 1
    /\ MissingBeforeFirstScan(1)

\* C6: with wrap_round = false, in the results of get_previous_idcs and
\* get_next_idcs every slot farther from the center than a missing slot is
\* missing too.
C6_MissingStopsTheWalk ==
    \A c \in Calls :
        (pc[c] = "insert_random_scan" /\ ~wrap_round) =>
            /\ \A p, q \in 1..steps_back :
                 (p < q /\ idcs[c][q] = None) => idcs[c][p] = None
            /\ \A p, q \in (steps_back + 2)..Len(idcs[c]) :
                 (p < q /\ idcs[c][p] = None) => idcs[c][q] = None

\* the forward walk of c is about to step past the last document of the last
\* inventory, the backward walk past the first document of the first one
ForwardAtLastDocument(c) ==
    /\ pc[c] = "next_loop"
    /\ Len(next_idcs[c]) < steps_forward
    /\ next_document[c] = get_last_document(get_last_inventory)

BackwardAtFirstDocument(c) ==
    /\ pc[c] = "prev_loop"
    /\ Len(prev_idcs[c]) < steps_back
    /\ prev_document[c] = get_first_document(get_first_inventory)

\* every result of the sequential walk from (inventory, document) enters doc
NextEnters(inventory, document, doc) ==
    \A result \in ScansInNextDocument(inventory, document, FALSE) :
        ~result.raised /\ ~result.none /\ result.doc = doc

PrevEnters(inventory, document, doc) ==
    \A result \in ScansInPrevDocument(inventory, document, FALSE) :
        ~result.raised /\ ~result.none /\ result.doc = doc

\* C7 as claimed: with wrap_round = true the forward walk past the last
\* document of the last inventory enters the first document of the first
\* inventory, the backward walk past the first document of the first
\* inventory the last document of the last inventory.
C7_WrapToFirstInventory ==
    \A c \in Calls :
        /\ (wrap_round /\ ForwardAtLastDocument(c)) =>
              NextEnters(next_document[c][1], next_document[c][2],
                         get_first_document(get_first_inventory))
        /\ (wrap_round /\ BackwardAtFirstDocument(c)) =>
              PrevEnters(prev_document[c][1], prev_document[c][2],
                         get_last_document(get_last_inventory))

\* C7 amended: that holds with sample_same_inventory = false; with
\* sample_same_inventory = true the walk wraps round within the inventory it
\* is in and enters the first (backward: the last) document of that inventory.
C7_WrapByInventoryMode ==
    \A c \in Calls :
        /\ (wrap_round /\ ForwardAtLastDocument(c)) =>
              NextEnters(next_document[c][1], next_document[c][2],
                         IF sample_same_inventory
                         THEN get_first_document(next_document[c][1])
                         ELSE get_first_document(get_first_inventory))
        /\ (wrap_round /\ BackwardAtFirstDocument(c)) =>
              PrevEnters(prev_document[c][1], prev_document[c][2],
                         IF sample_same_inventory
                         THEN get_last_document(prev_document[c][1])
                         ELSE get_last_document(get_last_inventory))

\* the forward walk from the last document of the last of several inventories
\* has wrapped round to the first document of the first inventory
C7_Witness ==
    /\ wrap_round /\ ~sample_same_inventory
    /\ prob_randomize_document_order = 0
    /\ NumInventories > 1
    /\ pc[1] = "next_loop"
    /\ <<center[1][1], center[1][2]>> = get_last_document(get_last_inventory)
    /\ next_document[1] = get_first_document(get_first_inventory)
    /\ next_idcs[1] # <<>>

\* C8: with wrap_round = true no slot of the window is missing.
C8_NoMissingWhenWrapping ==
    \A c \in Calls :
        (wrap_round /\ Built(c)) => \A p \in 1..Len(idcs[c]) : idcs[c][p] # None

C8_Witness ==
    /\ wrap_round /\ ~sample_same_inventory
    /\ pc[1] = "done"
    /\ center[1] = <<0, 0, 0>>
    /\ NumInventories > 1
    /\ \A p \in 1..Len(idcs[1]) : idcs[1][p] # None

\* C9: the center slot (index steps_back) of the window is the requested
\* coordinate, before and after insert_random_scan.
C9_CenterIsRequested ==
    \A c \in Calls :
        (Built(c) \/ pc[c] \in {"get_next_idcs", "next_loop"}) =>
            /\ idcs[c][steps_back + 1] = center[c]
            /\ idcs[c][steps_back + 1] # None

\* a foreign scan was inserted: without insertion the slot before the first
\* scan of the hierarchy would be missing
C9_Witness ==
    /\ pc[1] = "done" /\ ~wrap_round
    /\ prob_shuffle_document = 0
    /\ prob_randomize_document_order = 0
    /\ center[1] = <<0, 0, 0>>
    /\ number_of_images = 2
    /\ idcs[1][steps_back] # None
    /\ idcs[1][steps_back + 1] = center[1]

\* the list holds scans of the document of c other than its center only
OwnNeighbours(c, scans) ==
    \A p \in 1..Len(scans) :
        /\ <<scans[p][1], scans[p][2]>> = <<center[c][1], center[c][2]>>
        /\ scans[p] # center[c]

\* C10: the same-document neighbours a call collects are scans of its own
\* document, never those another call left in prev_scans and next_scans.
C10_CallsShareNoState ==
    [][\A c \in Calls :
         /\ (pc[c] = "get_previous_idcs" /\ pc'[c] = "prev_loop")
               => OwnNeighbours(c, prev_idcs'[c])
         /\ (pc[c] = "get_next_idcs" /\ pc'[c] = "next_loop")
               => OwnNeighbours(c, next_idcs'[c])]_vars

\* all documents of the hierarchy, as (inventory, document)
AllDocuments ==
    UNION {{<<i, d>> : d \in 0..(NumDocuments(i) - 1)} : i \in 0..(NumInventories - 1)}

\* the documents the randomized mode can enter from (inventory, document)
Enterable(inventory, document) ==
    RandomizedDocument(inventory, document) \ {Raised}

\* the documents the randomized mode is to choose among
EnterableAsClaimed(inventory, document) ==
    IF sample_same_inventory
    THEN {doc \in AllDocuments : doc[1] = inventory} \ {<<inventory, document>>}
    ELSE AllDocuments \ {<<inventory, document>>}

\* C12: in randomized document-order mode the documents that can be entered
\* next are, with sample_same_inventory, the other documents of the current
\* inventory and, without it, the other documents of every inventory, the
\* current inventory included.
C12_RandomizedDocuments ==
    \A c \in Calls :
        /\ (/\ pc[c] = "next_loop" /\ Len(next_idcs[c]) < steps_forward
            /\ prob_randomize_document_order > 0)
              => Enterable(next_document[c][1], next_document[c][2])
                 = EnterableAsClaimed(next_document[c][1], next_document[c][2])
        /\ (/\ pc[c] = "prev_loop" /\ Len(prev_idcs[c]) < steps_back
            /\ prob_randomize_document_order > 0)
              => Enterable(prev_document[c][1], prev_document[c][2])
                 = EnterableAsClaimed(prev_document[c][1], prev_document[c][2])

\* the in-bounds scans of a document other than the one of coord, within the
\* inventory of coord when sample_same_inventory
ForeignScans(coord) ==
    {scan \in {idx_to_idcs[k] : k \in 1..len} :
        /\ <<scan[1], scan[2]>> # <<coord[1], coord[2]>>
        /\ sample_same_inventory => scan[1] = coord[1]}

\* C13: when the insertion triggers, exactly one slot other than the center is
\* overwritten with an in-bounds scan of another document (of the center's
\* inventory when sample_same_inventory) and the other slots are unchanged;
\* the window is unchanged when there is no such scan.
C13_InsertionFrame ==
    [][\A c \in Calls :
         (/\ pc[c] = "insert_random_scan" /\ pc'[c] = "targets"
          /\ prob_random_scan_insert = 100)
            => IF ForeignScans(center[c]) = {}
               THEN idcs'[c] = idcs[c]
               ELSE \E p \in (1..Len(idcs[c])) \ {steps_back + 1} :
                      /\ idcs'[c][p] \in ForeignScans(center[c])
                      /\ \A q \in (1..Len(idcs[c])) \ {p} : idcs'[c][q] = idcs[c][q]
      ]_vars

\* the number of scans of the documents j, j + 1, .. of inventory i
RECURSIVE ScansFromDocument(_, _)
ScansFromDocument(i, j) ==
    IF j >= NumDocuments(i) THEN 0 ELSE NumScans(i, j) + ScansFromDocument(i, j + 1)

\* the number of scans of the inventories i, i + 1, ..
RECURSIVE ScansFromInventory(_)
ScansFromInventory(i) ==
    IF i >= NumInventories THEN 0 ELSE ScansFromDocument(i, 0) + ScansFromInventory(i + 1)

\* the position of a scan in hierarchy order: the scans of all earlier
\* inventories and of the earlier documents of its inventory, plus its index
FlatPosition(coord) ==
    (ScansFromInventory(0) - ScansFromInventory(coord[1]))
    + (ScansFromDocument(coord[1], 0) - ScansFromDocument(coord[1], coord[2]))
    + coord[3]

\* C18: len(dataset) is the sum of the document lengths and idx_to_idcs[k] is
\* the in-bounds coordinate whose position in hierarchy order is k.
C18_IndexBijection ==
    /\ len = ScansFromInventory(0)
    /\ \A k \in 0..(len - 1) :
         LET coord == idx_to_idcs[k + 1]
         IN  /\ ~is_out_of_bounds(coord[1], coord[2], coord[3])
             /\ FlatPosition(coord) = k

\* the last index of a hierarchy of two inventories was looked up
C18_Witness ==
    /\ NumInventories = 2
    /\ len = 4
    /\ pc[1] = "get_previous_idcs"
    /\ center[1] = <<1, 1, 1>>
    /\ center[1] = idx_to_idcs[len]

\* the slot at offset d from the center of c when nothing is perturbed: the
\* scan d positions away in hierarchy order if it is in the inventory of the
\* center, missing otherwise
SlotAtOffset(c, d) ==
    LET k == FlatPosition(center[c])
    IN  IF 0 <= k + d /\ k + d < len /\ idx_to_idcs[k + d + 1][1] = center[c][1]
        THEN idx_to_idcs[k + d + 1]
        ELSE None

\* C20: with the three probabilities 0 and wrap_round = false, the slot at
\* every offset d in [-steps_back, steps_forward] is the scan at flat index
\* k + d when that is a scan of the center's inventory, and missing otherwise.
C20_UnperturbedWindow ==
    \A c \in Calls :
        (/\ Built(c) /\ ~wrap_round
         /\ prob_shuffle_document = 0
         /\ prob_randomize_document_order = 0
         /\ prob_random_scan_insert = 0)
            => \A p \in 1..Len(idcs[c]) :
                  idcs[c][p] = SlotAtOffset(c, p - (steps_back + 1))

\* a window cut at the boundary between two inventories
C20_Witness ==
    /\ pc[1] = "done" /\ ~wrap_round /\ ~sample_same_inventory
    /\ prob_shuffle_document = 0
    /\ prob_randomize_document_order = 0
    /\ prob_random_scan_insert = 0
    /\ image_paths = << <<2>>, <<1>> >>
    /\ number_of_images = 3
    /\ center[1] = <<0, 0, 1>>
    /\ idcs[1] = <<None, <<0, 0, 0>>, <<0, 0, 1>>, None, None>>

-----------------------------------------------------------------------------
(* Properties of the caches, of the split, of __init__ and of navigation *)

\* C11: when several callers resolve the same coordinate while the cache has
\* no entry for it, the method runs once for that coordinate: no two callers
\* are inside get_image, or inside get_text, for the same coordinate.
C11_SingleFlight ==
    \A c1 \in Calls : \A c2 \in Calls \ {c1} :
        (wpc[c1] = wpc[c2] /\ wkey[c1] = wkey[c2])
            => wpc[c1] \notin {"load_image", "parse_text"}

\* the folders of the input are never divided, the outputs are disjoint and
\* together the input, and the paths of a folder are in natural order
KeepsFoldersTogether(training, val) ==
    /\ \A p \in training_paths : \A q \in training_paths :
          parent(p) = parent(q) => (p \in Range(training) <=> q \in Range(training))
    /\ Range(training) \cap Range(val) = {}
    /\ Range(training) \cup Range(val) = training_paths
    /\ Len(training) + Len(val) = Cardinality(training_paths)
    /\ \A out \in {training, val} :
          \A i \in 1..Len(out) : \A j \in (i + 1)..Len(out) :
              parent(out[i]) = parent(out[j]) => NaturalLess(out[i], out[j])

\* C14: for every list of paths, ratio and seed, paths with the same parent
\* folder end up in the same output, the two outputs are disjoint, their
\* union is the input, and the natural order within each folder is kept.
C14_FoldersStayTogether ==
    split_pc = "returned"
        => KeepsFoldersTogether(split_training_paths, split_val_paths)

\* Python's round(numerator / 100): to the nearest integer, a tie to the even one
Round(numerator) ==
    LET q == numerator \div 100
        rest == numerator % 100
    IN  IF rest < 50 THEN q
        ELSE IF rest > 50 THEN q + 1
        ELSE IF q % 2 = 0 THEN q ELSE q + 1

\* the groups of the input that are in the training output
TrainingGroups ==
    LET groups == groupby(natsorted(training_paths))
    IN  {i \in 1..Len(groups) : Range(groups[i]) \subseteq Range(split_training_paths)}

\* C15: exactly round(r * |groups|) whole groups go to the training output and
\* the other groups to the validation output.
C15_RoundedShare ==
    split_pc = "returned"
        => Cardinality(TrainingGroups)
           = Round(Len(groupby(natsorted(training_paths))) * split_ratio)

\* C16: a dataset is not constructed with a probability outside [0, 1]:
\* construction fails for it.
C16_ProbabilitiesChecked ==
    (\E c \in Calls : pc[c] = "idle")
        => /\ prob_shuffle_document \in 0..100
           /\ prob_randomize_document_order \in 0..100
           /\ prob_random_scan_insert \in 0..100

\* the inventory or the document index of the last call is outside the hierarchy
NavOutOfRange ==
    \/ nav.args[1] \notin 0..(NumInventories - 1)
    \/ /\ Len(nav.args) >= 2
       /\ nav.args[2] \notin 0..(NumDocuments(nav.args[1]) - 1)

\* the last call returned None, false or an empty sequence
NavAbsent ==
    CASE nav.primitive = "scan_in_document" -> nav.outcome.value = FALSE
      [] nav.primitive = "get_all_scans_in_document" -> nav.outcome.value = <<>>
      [] nav.primitive \in {"get_next_inventory", "get_prev_inventory"} ->
             nav.outcome.value = NoInventory
      [] OTHER -> nav.outcome.value = None

\* C17: a navigation method called with an inventory or document index outside
\* the hierarchy returns None, false or an empty sequence: it does not raise
\* and returns no coordinate outside the hierarchy.
C17_OutOfRangeIsAbsent ==
    (nav.primitive # "none" /\ NavOutOfRange)
        => (~nav.outcome.raised /\ NavAbsent)

\* the place of an element in a sequence without repetitions
Position(seq, e) == CHOOSE i \in 1..Len(seq) : seq[i] = e

\* C19: a cache never holds more than maxsize entries, and an entry leaves it
\* only when a new one is stored in the full cache, and then it is the entry
\* whose last use (a hit is a use) is the oldest.
C19_BoundedLeastRecentlyUsed ==
    [][\A f \in Functions :
         /\ Len(cache'[f]) <= maxsize
         /\ \A e \in Range(cache[f]) \ Range(cache'[f]) :
              /\ Len(cache[f]) = maxsize
              /\ Range(cache'[f]) \ Range(cache[f]) # {}
              /\ \A k \in Range(cache[f]) \ {e} :
                    Position(used[f], e) < Position(used[f], k)
      ]_vars

\* every scan was asked for, the first one again before the cache was full:
\* the second scan was dropped for the last one, the first scan is still held
C19_Witness ==
    /\ cursor = len
    /\ Len(cache["get_image"]) = maxsize
    /\ <<0, 0, 0>> \in Range(cache["get_image"])
    /\ <<0, 0, 1>> \notin Range(cache["get_image"])
    /\ <<0, 0, maxsize>> \in Range(cache["get_image"])

\* C21: for every hierarchy of non-empty documents, every index and every
\* configuration, no walk raises and every call of __getitem__ that started
\* its walks comes to return its window.
C21_WalksComplete ==
    /\ [](\A c \in Calls : pc[c] # "raised")
    /\ \A c \in Calls : (pc[c] = "get_previous_idcs") ~> (pc[c] = "done")

====
